---- MODULE Spec2Model ----
(***************************************************************************)
(* krlparser/parser.py: the recursive-descent parser of KRL source and     *)
(* data files, as a state machine.  A frame of the call stack is a record  *)
(* holding the function it belongs to, the source line it executes next    *)
(* and the function's locals; one step runs one frame up to its next call, *)
(* return or raise.  A step at a line that follows a call first binds the  *)
(* call's result (ret) to the local the source assigns it to.              *)
(***************************************************************************)
EXTENDS Integers, Sequences, FiniteSets, TLC

\* The size of everything one parser is handed over its lifetime: every call
\* of an entry point counts one, and every fragment of its texts one more.
MaxInput == 4

VARIABLES _ast, _tokens, _position, _current_token, stack, ret, err, caller,
          fuel

vars ==
  <<_ast, _tokens, _position, _current_token, stack, ret, err, caller, fuel>>
cursor == <<_tokens, _position, _current_token>>

(***************************************************************************)
(* Token kinds and keywords (krlparser/token.py: TOKENS, KEYWORDS).         *)
(***************************************************************************)
TOKENS_NEWLINE == "NEWLINE"
TOKENS_LEFT_BRACE == "LEFT_BRACE"
TOKENS_RIGHT_BRACE == "RIGHT_BRACE"
TOKENS_COLON == "COLON"
TOKENS_COMMA == "COMMA"
TOKENS_NAME == "NAME"
TOKENS_FILE_ATTRIBUTE == "FILE_ATTRIBUTE"
TOKENS_END_OF_FILE == "END_OF_FILE"
KEYWORDS_GLOBAL == "GLOBAL"
KEYWORDS_DEF == "DEF"
KEYWORDS_DEFFCT == "DEFFCT"
KEYWORDS_END == "END"
KEYWORDS_ENDFCT == "ENDFCT"
KEYWORDS_DEFDAT == "DEFDAT"
KEYWORDS_ENDDAT == "ENDDAT"
KEYWORDS_PUBLIC == "PUBLIC"
KEYWORDS_IN == "IN"
KEYWORDS_OUT == "OUT"

\* Python's None, in the shape of the value it stands in for.
None == [token_type |-> "None", value |-> 0, line_number |-> 0, column |-> 0]
NoneNode == [node |-> "None"]
NoError == [type |-> "none", line_number |-> 0, column |-> 0, message |-> ""]

(***************************************************************************)
(* The texts.  A text is the sequence of its lexemes' kinds; the lexer     *)
(* stamps each token with its ordinal (standing for the lexeme, so every   *)
(* NAME is a different identifier), its line and its column, and ends the  *)
(* sequence with the end-of-file token.                                    *)
(***************************************************************************)
Fragments ==
  { <<TOKENS_NEWLINE>>,
    <<KEYWORDS_GLOBAL>>,
    <<TOKENS_FILE_ATTRIBUTE>>,
    <<KEYWORDS_DEF, TOKENS_NAME, TOKENS_LEFT_BRACE,
      TOKENS_NAME, TOKENS_COLON, KEYWORDS_IN, TOKENS_COMMA,
      TOKENS_NAME, TOKENS_COLON, KEYWORDS_OUT, TOKENS_RIGHT_BRACE, TOKENS_NEWLINE,
      TOKENS_NAME, TOKENS_LEFT_BRACE, TOKENS_RIGHT_BRACE, TOKENS_NEWLINE,
      KEYWORDS_END>>,
    <<KEYWORDS_DEFFCT, TOKENS_NAME, TOKENS_NAME, TOKENS_LEFT_BRACE,
      TOKENS_RIGHT_BRACE, TOKENS_NEWLINE,
      TOKENS_NAME, TOKENS_LEFT_BRACE, TOKENS_NAME, TOKENS_COMMA, TOKENS_NAME,
      TOKENS_RIGHT_BRACE, TOKENS_NEWLINE,
      KEYWORDS_ENDFCT>>,
    <<KEYWORDS_DEF, TOKENS_NAME, TOKENS_LEFT_BRACE, TOKENS_NAME, TOKENS_COLON>>,
    <<KEYWORDS_DEFDAT, TOKENS_NAME, TOKENS_NEWLINE, KEYWORDS_ENDDAT>>,
    <<KEYWORDS_DEFDAT, TOKENS_NAME, KEYWORDS_PUBLIC, TOKENS_NEWLINE, TOKENS_NEWLINE,
      KEYWORDS_ENDDAT>>,
    <<KEYWORDS_DEFDAT, TOKENS_NAME, KEYWORDS_ENDDAT>> }

RECURSIVE TextsOf(_)
TextsOf(n) ==
  IF n = 0 THEN {<<>>}
  ELSE {f \o t : f \in Fragments, t \in TextsOf(n - 1)}

RECURSIVE CountNewlines(_, _)
CountNewlines(kinds, n) ==
  IF n = 0 THEN 0
  ELSE CountNewlines(kinds, n - 1)
         + (IF kinds[n] = TOKENS_NEWLINE THEN 1 ELSE 0)

RECURSIVE LineStart(_, _)
LineStart(kinds, n) ==
  IF n = 0 THEN 0
  ELSE IF kinds[n] = TOKENS_NEWLINE THEN n ELSE LineStart(kinds, n - 1)

generate_tokens(text) ==
  LET kinds == text \o <<TOKENS_END_OF_FILE>>
  IN  [i \in 1..Len(kinds) |->
         [token_type |-> kinds[i],
          value |-> i,
          line_number |-> 1 + CountNewlines(kinds, i - 1),
          column |-> i - LineStart(kinds, i - 1)]]

(***************************************************************************)
(* AST nodes (krlparser/ast.py), built from the arguments the parser       *)
(* passes; a field the parser does not pass keeps its default.             *)
(***************************************************************************)
Module(name, source_file, data_file) ==
  [node |-> "Module", name |-> name, source_file |-> source_file,
   data_file |-> data_file]
SourceFile(name, file_attributes, statements) ==
  [node |-> "SourceFile", name |-> name, file_attributes |-> file_attributes,
   statements |-> statements]
DataFile(name, file_attributes, statements) ==
  [node |-> "DataFile", name |-> name, file_attributes |-> file_attributes,
   statements |-> statements]
FileAttribute(value) == [node |-> "FileAttribute", value |-> value]
Type(name) == [node |-> "Type", name |-> name]
FunctionDefinition(name, parameters, body, returns) ==
  [node |-> "FunctionDefinition", name |-> name, parameters |-> parameters,
   body |-> body, returns |-> returns, is_global |-> FALSE]
DataDefinition(name) ==
  [node |-> "DataDefinition", name |-> name, is_public |-> FALSE]
Parameter(name, parameter_type) ==
  [node |-> "Parameter", name |-> name, parameter_type |-> parameter_type]
FunctionCall(name, parameters) ==
  [node |-> "FunctionCall", name |-> name, parameters |-> parameters]

ParsingError(line_number, column, message) ==
  [type |-> "ParsingError", line_number |-> line_number, column |-> column,
   message |-> message]
\* What Python raises when the parser reads an attribute of None.
AttributeError ==
  [type |-> "AttributeError", line_number |-> 0, column |-> 0,
   message |-> "'NoneType' object has no attribute 'token_type'"]

(***************************************************************************)
(* Control: the call stack, returns, and exceptions.                       *)
(***************************************************************************)
Top == stack[1]
Rest == Tail(stack)
At(fn, line) == stack # <<>> /\ Top.fn = fn /\ Top.line = line

\* The frames left once exception e has propagated: the innermost
\* _try_eat, whose except clause (line 80) catches a ParsingError, resumes
\* at line 81; with no handler the exception leaves the add_* call.
RECURSIVE Unwind(_, _)
Unwind(s, e) ==
  IF s = <<>> THEN <<>>
  ELSE IF Head(s).fn = "_try_eat" /\ e.type = "ParsingError"
       THEN <<[Head(s) EXCEPT !.line = "81"]>> \o Tail(s)
       ELSE Unwind(Tail(s), e)

Throw(e) ==
  LET left == Unwind(stack, e)
  IN  /\ stack' = left
      /\ err' = IF left = <<>> THEN e ELSE err
      /\ caller' = IF left = <<>> THEN [caller EXCEPT !.state = "raised"]
                   ELSE caller
      /\ ret' = ret

\* The frame goes on as frame f.
Become(f) ==
  /\ stack' = <<f>> \o Rest
  /\ UNCHANGED <<ret, err, caller>>

Goto(line) == Become([Top EXCEPT !.line = line])

\* The frame calls callee and goes on, after it, as frame f.
Call(callee, f) ==
  /\ stack' = <<callee, f>> \o Rest
  /\ UNCHANGED <<ret, err, caller>>

CallThen(callee, line) == Call(callee, [Top EXCEPT !.line = line])

\* What a call hands back, by the type of the value.
NoReturn ==
  [flag |-> FALSE, token |-> None, node |-> NoneNode, nodes |-> <<>>,
   names |-> <<>>, name |-> 0]
Flag(b) == [NoReturn EXCEPT !.flag = b]
Token(t) == [NoReturn EXCEPT !.token = t]
Node(n) == [NoReturn EXCEPT !.node = n]
Nodes(s) == [NoReturn EXCEPT !.nodes = s]
Names(s) == [NoReturn EXCEPT !.names = s]
Name(v) == [NoReturn EXCEPT !.name = v]

Return(v) ==
  /\ stack' = Rest
  /\ ret' = v
  /\ err' = err
  /\ caller' = IF Rest = <<>> THEN [caller EXCEPT !.state = "returned"]
               ELSE caller

\* A read of self._current_token.token_type: an AttributeError on None.
Look(A) == IF _current_token = None THEN Throw(AttributeError) ELSE A

Frame_eat(token_type) == [fn |-> "_eat", line |-> "69", token_type |-> token_type]
Frame_try_eat(token_type) ==
  [fn |-> "_try_eat", line |-> "78", token_type |-> token_type]
Frame_skip_newlines == [fn |-> "_skip_newlines", line |-> "95"]
Frame_source_file(name) ==
  [fn |-> "_source_file", line |-> "103", name |-> name, attributes |-> <<>>,
   statements |-> <<>>, definitions |-> <<>>]
Frame_data_file(name) ==
  [fn |-> "_data_file", line |-> "126", name |-> name, attributes |-> <<>>,
   statements |-> <<>>]
Frame_header == [fn |-> "_header", line |-> "148", attributes |-> <<>>]
Frame_mod_def ==
  [fn |-> "_mod_def", line |-> "156", global_definition |-> FALSE, name |-> None,
   parameters |-> <<>>, body |-> <<>>]
Frame_fnc_def ==
  [fn |-> "_fnc_def", line |-> "182", global_definition |-> FALSE,
   return_type |-> None, name |-> None, parameters |-> <<>>, body |-> <<>>]
Frame_dat_def ==
  [fn |-> "_dat_def", line |-> "211", name |-> None, public_definition |-> FALSE]
Frame_params_def == [fn |-> "_params_def", line |-> "227", parameters |-> <<>>]
Frame_param_def ==
  [fn |-> "_param_def", line |-> "238", name |-> None, parameter_type |-> "None"]
Frame_body == [fn |-> "_body", line |-> "255", body |-> <<>>]
Frame_mod_call ==
  [fn |-> "_mod_call", line |-> "265", function |-> None, parameters |-> <<>>]
Frame_params == [fn |-> "_params", line |-> "275", parameters |-> <<>>]
Frame_param == [fn |-> "_param", line |-> "286"]

(***************************************************************************)
(* The cursor primitives.                                                  *)
(***************************************************************************)
\* Line 60 resets _temp_ast, which nothing reads, and leaves _ast alone.
_initialize_resets_ast(tokens) ==
  /\ _tokens' = tokens
  /\ _ast' = <<>>
  /\ _position' = 0
  /\ _current_token' = tokens[1]

_initialize(tokens) ==
  /\ _tokens' = tokens
  /\ _ast' = _ast
  /\ _position' = 0
  /\ _current_token' = tokens[1]

_advance_stuck ==
  /\ _position' = _position
  /\ _current_token' = _current_token
  /\ _tokens' = _tokens

_advance_off_by_one ==
  /\ _position' = _position + 1
  /\ _current_token' = IF _position + 1 >= Len(_tokens) - 1 THEN None
                       ELSE _tokens[_position + 2]
  /\ _tokens' = _tokens

_advance ==
  /\ _position' = _position + 1
  /\ _current_token' = IF _position + 1 > Len(_tokens) - 1 THEN None
                       ELSE _tokens[_position + 2]
  /\ _tokens' = _tokens

_error(message) ==
  Look(Throw(ParsingError(_current_token.line_number, _current_token.column,
                          message)))

_is_current_token(token_type) == _current_token.token_type = token_type

_eat_advance_first ==
  /\ At("_eat", "69")
  /\ IF _current_token = None
     THEN Throw(AttributeError) /\ UNCHANGED cursor
     ELSE IF _current_token.token_type = Top.token_type
          THEN _advance /\ Return(Token(_current_token))
          ELSE /\ _error("Expected \"" \o Top.token_type \o "\", found \""
                         \o _current_token.token_type \o "\"")
               /\ _advance
  /\ UNCHANGED <<_ast, fuel>>

_eat ==
  /\ At("_eat", "69")
  /\ IF _current_token = None
     THEN Throw(AttributeError) /\ UNCHANGED cursor
     ELSE IF _current_token.token_type = Top.token_type
          THEN _advance /\ Return(Token(_current_token))
          ELSE /\ _error("Expected \"" \o Top.token_type \o "\", found \""
                         \o _current_token.token_type \o "\"")
               /\ UNCHANGED cursor
  /\ UNCHANGED <<_ast, fuel>>

_try_eat ==
  /\ stack # <<>> /\ Top.fn = "_try_eat"
  /\ CASE Top.line = "78" -> CallThen(Frame_eat(Top.token_type), "79")
       [] Top.line = "79" -> Return(Flag(TRUE))
       [] Top.line = "81" -> Return(Flag(FALSE))
  /\ UNCHANGED <<_ast, cursor, fuel>>

_skip_newlines ==
  /\ stack # <<>> /\ Top.fn = "_skip_newlines"
  /\ CASE Top.line = "95" -> CallThen(Frame_try_eat(TOKENS_NEWLINE), "96")
       [] Top.line = "96" -> IF ret.flag THEN Goto("95") ELSE Return(Node(NoneNode))
  /\ UNCHANGED <<_ast, cursor, fuel>>

(***************************************************************************)
(* The grammar productions.                                                *)
(***************************************************************************)
\* Lines 109-110: the definitions that are not None join the statements.
append_definitions_reversed(statements, definitions) ==
  statements
    \o SelectSeq(<<definitions[2], definitions[1]>>,
                 LAMBDA definition : definition # NoneNode)

append_definitions(statements, definitions) ==
  statements \o SelectSeq(definitions, LAMBDA definition : definition # NoneNode)

\* Lines 112-113.
_source_file_check_skipped == Goto("115")

_source_file_check ==
  IF Top.statements = <<>>
  THEN _error("No module or function definition found")
  ELSE Goto("115")

_source_file ==
  /\ stack # <<>> /\ Top.fn = "_source_file"
  /\ CASE Top.line = "103" -> CallThen(Frame_header, "105")
       [] Top.line = "105" ->
            Become([Top EXCEPT !.attributes = ret.nodes, !.statements = <<>>,
                               !.line = "106"])
       [] Top.line = "106" ->
            Look(IF \E token \in {KEYWORDS_GLOBAL, KEYWORDS_DEF, KEYWORDS_DEFFCT} :
                      _is_current_token(token)
                 THEN Goto("108")
                 ELSE Goto("112"))
       [] Top.line = "108" -> CallThen(Frame_mod_def, "108.2")
       [] Top.line = "108.2" ->
            Call(Frame_fnc_def,
                 [Top EXCEPT !.definitions = <<ret.node>>, !.line = "109"])
       [] Top.line = "109" ->
            Become([Top EXCEPT
                      !.definitions = <<>>,
                      !.statements =
                         append_definitions(Top.statements,
                                            Append(Top.definitions, ret.node)),
                      !.line = "106"])
       [] Top.line = "112" -> _source_file_check
       [] Top.line = "115" -> CallThen(Frame_eat(TOKENS_END_OF_FILE), "117")
       [] Top.line = "117" ->
            Return(Node(SourceFile(Top.name, Top.attributes, Top.statements)))
  /\ UNCHANGED <<_ast, cursor, fuel>>

\* Lines 132-135.
_data_file_check_lax ==
  IF Top.statements = <<>>
  THEN _error("No data definition found")
  ELSE IF Len(Top.statements) > 2
       THEN _error("More than one data definition found")
       ELSE Goto("137")

_data_file_check ==
  IF Top.statements = <<>>
  THEN _error("No data definition found")
  ELSE IF Len(Top.statements) > 1
       THEN _error("More than one data definition found")
       ELSE Goto("137")

_data_file ==
  /\ stack # <<>> /\ Top.fn = "_data_file"
  /\ CASE Top.line = "126" -> CallThen(Frame_header, "128")
       [] Top.line = "128" ->
            Become([Top EXCEPT !.attributes = ret.nodes, !.statements = <<>>,
                               !.line = "129"])
       [] Top.line = "129" ->
            Look(IF _is_current_token(KEYWORDS_DEFDAT)
                 THEN CallThen(Frame_dat_def, "130")
                 ELSE Goto("132"))
       [] Top.line = "130" ->
            Become([Top EXCEPT !.statements = Append(Top.statements, ret.node),
                               !.line = "129"])
       [] Top.line = "132" -> _data_file_check
       [] Top.line = "137" -> CallThen(Frame_eat(TOKENS_END_OF_FILE), "139")
       [] Top.line = "139" ->
            Return(Node(DataFile(Top.name, Top.attributes, Top.statements)))
  /\ UNCHANGED <<_ast, cursor, fuel>>

_header ==
  /\ stack # <<>> /\ Top.fn = "_header"
  /\ CASE Top.line = "148" ->
            Look(IF _current_token.token_type = TOKENS_FILE_ATTRIBUTE
                 THEN CallThen(Frame_eat(TOKENS_FILE_ATTRIBUTE), "150")
                 ELSE Return(Nodes(Top.attributes)))
       [] Top.line = "150" ->
            Call(Frame_eat(TOKENS_NEWLINE),
                 [Top EXCEPT
                    !.attributes =
                      Append(Top.attributes, FileAttribute(ret.token.value)),
                    !.line = "152"])
       [] Top.line = "152" -> CallThen(Frame_skip_newlines, "148")
  /\ UNCHANGED <<_ast, cursor, fuel>>

_mod_def ==
  /\ stack # <<>> /\ Top.fn = "_mod_def"
  /\ CASE Top.line = "156" -> CallThen(Frame_skip_newlines, "158")
       [] Top.line = "158" -> CallThen(Frame_try_eat(KEYWORDS_GLOBAL), "160")
       [] Top.line = "160" ->
            Look(IF ~_is_current_token(KEYWORDS_DEF)
                 THEN Return(Node(NoneNode))
                 ELSE Become([Top EXCEPT !.global_definition = ret.flag,
                                         !.line = "163"]))
       [] Top.line = "163" -> CallThen(Frame_eat(KEYWORDS_DEF), "164")
       [] Top.line = "164" -> CallThen(Frame_eat(TOKENS_NAME), "165")
       [] Top.line = "165" ->
            Call(Frame_eat(TOKENS_LEFT_BRACE),
                 [Top EXCEPT !.name = ret.token, !.line = "166"])
       [] Top.line = "166" -> CallThen(Frame_params_def, "167")
       [] Top.line = "167" ->
            Call(Frame_eat(TOKENS_RIGHT_BRACE),
                 [Top EXCEPT !.parameters = ret.nodes, !.line = "168"])
       [] Top.line = "168" -> CallThen(Frame_eat(TOKENS_NEWLINE), "170")
       [] Top.line = "170" -> CallThen(Frame_skip_newlines, "172")
       [] Top.line = "172" -> CallThen(Frame_body, "174")
       [] Top.line = "174" ->
            Call(Frame_eat(KEYWORDS_END),
                 [Top EXCEPT !.body = ret.nodes, !.line = "176"])
       [] Top.line = "176" -> CallThen(Frame_skip_newlines, "177")
       [] Top.line = "177" ->
            Return(Node(FunctionDefinition(Top.name.value, Top.parameters, Top.body,
                                      NoneNode)))
  /\ UNCHANGED <<_ast, cursor, fuel>>

_fnc_def ==
  /\ stack # <<>> /\ Top.fn = "_fnc_def"
  /\ CASE Top.line = "182" -> CallThen(Frame_skip_newlines, "184")
       [] Top.line = "184" -> CallThen(Frame_try_eat(KEYWORDS_GLOBAL), "186")
       [] Top.line = "186" ->
            Look(IF ~_is_current_token(KEYWORDS_DEFFCT)
                 THEN Return(Node(NoneNode))
                 ELSE Become([Top EXCEPT !.global_definition = ret.flag,
                                         !.line = "189"]))
       [] Top.line = "189" -> CallThen(Frame_eat(KEYWORDS_DEFFCT), "191")
       [] Top.line = "191" -> CallThen(Frame_eat(TOKENS_NAME), "192")
       [] Top.line = "192" ->
            Call(Frame_eat(TOKENS_NAME),
                 [Top EXCEPT !.return_type = ret.token, !.line = "193"])
       [] Top.line = "193" ->
            Call(Frame_eat(TOKENS_LEFT_BRACE),
                 [Top EXCEPT !.name = ret.token, !.line = "194"])
       [] Top.line = "194" -> CallThen(Frame_params_def, "195")
       [] Top.line = "195" ->
            Call(Frame_eat(TOKENS_RIGHT_BRACE),
                 [Top EXCEPT !.parameters = ret.nodes, !.line = "196"])
       [] Top.line = "196" -> CallThen(Frame_eat(TOKENS_NEWLINE), "198")
       [] Top.line = "198" -> CallThen(Frame_skip_newlines, "200")
       [] Top.line = "200" -> CallThen(Frame_body, "202")
       [] Top.line = "202" ->
            Call(Frame_eat(KEYWORDS_ENDFCT),
                 [Top EXCEPT !.body = ret.nodes, !.line = "204"])
       [] Top.line = "204" -> CallThen(Frame_skip_newlines, "205")
       [] Top.line = "205" ->
            Return(Node(FunctionDefinition(Top.name.value, Top.parameters, Top.body,
                                      Type(Top.return_type.value))))
  /\ UNCHANGED <<_ast, cursor, fuel>>

_dat_def ==
  /\ stack # <<>> /\ Top.fn = "_dat_def"
  /\ CASE Top.line = "211" -> CallThen(Frame_skip_newlines, "213")
       [] Top.line = "213" -> CallThen(Frame_eat(KEYWORDS_DEFDAT), "214")
       [] Top.line = "214" -> CallThen(Frame_eat(TOKENS_NAME), "215")
       [] Top.line = "215" ->
            Call(Frame_try_eat(KEYWORDS_PUBLIC),
                 [Top EXCEPT !.name = ret.token, !.line = "216"])
       [] Top.line = "216" ->
            Call(Frame_eat(TOKENS_NEWLINE),
                 [Top EXCEPT !.public_definition = ret.flag, !.line = "218"])
       [] Top.line = "218" -> CallThen(Frame_skip_newlines, "220")
       [] Top.line = "220" -> CallThen(Frame_eat(KEYWORDS_ENDDAT), "222")
       [] Top.line = "222" -> CallThen(Frame_skip_newlines, "223")
       [] Top.line = "223" -> Return(Node(DataDefinition(Top.name.value)))
  /\ UNCHANGED <<_ast, cursor, fuel>>

_params_def ==
  /\ stack # <<>> /\ Top.fn = "_params_def"
  /\ CASE Top.line = "227" ->
            Look(IF ~_is_current_token(TOKENS_NAME)
                 THEN Return(Nodes(Top.parameters))
                 ELSE CallThen(Frame_param_def, "232"))
       [] Top.line = "232" ->
            Call(Frame_try_eat(TOKENS_COMMA),
                 [Top EXCEPT !.parameters = Append(Top.parameters, ret.node),
                             !.line = "233"])
       [] Top.line = "233" ->
            IF ret.flag THEN CallThen(Frame_param_def, "232")
            ELSE Return(Nodes(Top.parameters))
  /\ UNCHANGED <<_ast, cursor, fuel>>

\* Lines 247-250.
_param_def_check_missing ==
  Return(Node(Parameter(Top.name.value, Top.parameter_type)))

_param_def_check ==
  IF Top.parameter_type = "None"
  THEN _error("Expected \"" \o KEYWORDS_IN \o "\" or \"" \o KEYWORDS_OUT \o "\"")
  ELSE Return(Node(Parameter(Top.name.value, Top.parameter_type)))

_param_def ==
  /\ stack # <<>> /\ Top.fn = "_param_def"
  /\ CASE Top.line = "238" -> CallThen(Frame_eat(TOKENS_NAME), "239")
       [] Top.line = "239" ->
            Call(Frame_eat(TOKENS_COLON),
                 [Top EXCEPT !.name = ret.token, !.line = "242"])
       [] Top.line = "242" -> CallThen(Frame_try_eat(KEYWORDS_IN), "243")
       [] Top.line = "243" ->
            IF ret.flag
            THEN Become([Top EXCEPT !.parameter_type = "IN", !.line = "247"])
            ELSE CallThen(Frame_try_eat(KEYWORDS_OUT), "245")
       [] Top.line = "245" ->
            IF ret.flag
            THEN Become([Top EXCEPT !.parameter_type = "OUT", !.line = "247"])
            ELSE Goto("247")
       [] Top.line = "247" -> _param_def_check
  /\ UNCHANGED <<_ast, cursor, fuel>>

_body ==
  /\ stack # <<>> /\ Top.fn = "_body"
  /\ CASE Top.line = "255" -> CallThen(Frame_skip_newlines, "257")
       [] Top.line = "257" ->
            Look(IF _is_current_token(TOKENS_NAME)
                 THEN CallThen(Frame_mod_call, "258")
                 ELSE Return(Nodes(Top.body)))
       [] Top.line = "258" ->
            Become([Top EXCEPT !.body = Append(Top.body, ret.node), !.line = "255"])
  /\ UNCHANGED <<_ast, cursor, fuel>>

_mod_call ==
  /\ stack # <<>> /\ Top.fn = "_mod_call"
  /\ CASE Top.line = "265" -> CallThen(Frame_eat(TOKENS_NAME), "266")
       [] Top.line = "266" ->
            Call(Frame_eat(TOKENS_LEFT_BRACE),
                 [Top EXCEPT !.function = ret.token, !.line = "267"])
       [] Top.line = "267" -> CallThen(Frame_params, "268")
       [] Top.line = "268" ->
            Call(Frame_eat(TOKENS_RIGHT_BRACE),
                 [Top EXCEPT !.parameters = ret.names, !.line = "269"])
       [] Top.line = "269" -> CallThen(Frame_eat(TOKENS_NEWLINE), "271")
       [] Top.line = "271" ->
            Return(Node(FunctionCall(Top.function.value, Top.parameters)))
  /\ UNCHANGED <<_ast, cursor, fuel>>

_params ==
  /\ stack # <<>> /\ Top.fn = "_params"
  /\ CASE Top.line = "275" ->
            Look(IF ~_is_current_token(TOKENS_NAME)
                 THEN Return(Names(Top.parameters))
                 ELSE CallThen(Frame_param, "280"))
       [] Top.line = "280" ->
            Call(Frame_try_eat(TOKENS_COMMA),
                 [Top EXCEPT !.parameters = Append(Top.parameters, ret.name),
                             !.line = "281"])
       [] Top.line = "281" ->
            IF ret.flag THEN CallThen(Frame_param, "280")
            ELSE Return(Names(Top.parameters))
  /\ UNCHANGED <<_ast, cursor, fuel>>

_param ==
  /\ stack # <<>> /\ Top.fn = "_param"
  /\ CASE Top.line = "286" -> CallThen(Frame_eat(TOKENS_NAME), "286.2")
       [] Top.line = "286.2" -> Return(Name(ret.token.value))
  /\ UNCHANGED <<_ast, cursor, fuel>>

(***************************************************************************)
(* The entry points.  A caller invokes one while no call is running, with  *)
(* a name and texts of its choosing; the call runs to its return or to the *)
(* exception that leaves it.                                               *)
(***************************************************************************)
ModuleNames == {"prog"}

Invoke(op, frame) ==
  /\ stack' = <<frame>>
  /\ caller' = [op |-> op, state |-> "running"]
  /\ err' = NoError
  /\ ret' = NoReturn

call_add_module ==
  /\ stack = <<>>
  /\ \E n \in 1..fuel, m \in 1..fuel, module_name \in ModuleNames :
       /\ n + m + 1 <= fuel
       /\ \E source_file \in TextsOf(n), data_file \in TextsOf(m) :
            LET source_tokens == generate_tokens(source_file)
                data_tokens == generate_tokens(data_file)
            IN  /\ _initialize(source_tokens)
                /\ Invoke("add_module",
                          [fn |-> "add_module", line |-> "37",
                           module_name |-> module_name,
                           data_tokens |-> data_tokens,
                           source_file |-> NoneNode])
       /\ fuel' = fuel - (n + m + 1)

add_module ==
  /\ stack # <<>> /\ Top.fn = "add_module"
  /\ CASE Top.line = "37" ->
            /\ CallThen(Frame_source_file(Top.module_name), "39")
            /\ UNCHANGED <<_ast, cursor>>
       [] Top.line = "39" ->
            /\ _initialize(Top.data_tokens)
            /\ Become([Top EXCEPT !.source_file = ret.node, !.line = "40"])
       [] Top.line = "40" ->
            /\ CallThen(Frame_data_file(Top.module_name), "42")
            /\ UNCHANGED <<_ast, cursor>>
       [] Top.line = "42" ->
            /\ _ast' = Append(_ast, Module(Top.module_name, Top.source_file,
                                           ret.node))
            /\ Return(Node(NoneNode))
            /\ UNCHANGED cursor
  /\ UNCHANGED fuel

call_add_source_file ==
  /\ stack = <<>>
  /\ \E n \in 1..(fuel - 1), name \in ModuleNames :
       /\ \E source_file \in TextsOf(n) :
            /\ _initialize(generate_tokens(source_file))
            /\ Invoke("add_source_file",
                      [fn |-> "add_source_file", line |-> "49", name |-> name])
       /\ fuel' = fuel - (n + 1)

add_source_file ==
  /\ stack # <<>> /\ Top.fn = "add_source_file"
  /\ CASE Top.line = "49" ->
            /\ CallThen(Frame_source_file(Top.name), "50")
            /\ UNCHANGED _ast
       [] Top.line = "50" ->
            /\ _ast' = Append(_ast, ret.node)
            /\ Return(Node(NoneNode))
  /\ UNCHANGED <<cursor, fuel>>

call_add_data_file ==
  /\ stack = <<>>
  /\ \E n \in 1..(fuel - 1), name \in ModuleNames :
       /\ \E data_file \in TextsOf(n) :
            /\ _initialize(generate_tokens(data_file))
            /\ Invoke("add_data_file",
                      [fn |-> "add_data_file", line |-> "55", name |-> name])
       /\ fuel' = fuel - (n + 1)

add_data_file ==
  /\ stack # <<>> /\ Top.fn = "add_data_file"
  /\ CASE Top.line = "55" ->
            /\ CallThen(Frame_data_file(Top.name), "56")
            /\ UNCHANGED _ast
       [] Top.line = "56" ->
            /\ _ast' = Append(_ast, ret.node)
            /\ Return(Node(NoneNode))
  /\ UNCHANGED <<cursor, fuel>>

Init ==
  /\ _ast = <<>>
  /\ _tokens = <<>>
  /\ _position = 0
  /\ _current_token = None
  /\ stack = <<>>
  /\ ret = NoReturn
  /\ err = NoError
  /\ caller = [op |-> "none", state |-> "idle"]
  /\ fuel = MaxInput

\* The steps of a running call.
Run ==
  \/ add_module
  \/ add_source_file
  \/ add_data_file
  \/ _eat
  \/ _try_eat
  \/ _skip_newlines
  \/ _source_file
  \/ _data_file
  \/ _header
  \/ _mod_def
  \/ _fnc_def
  \/ _dat_def
  \/ _params_def
  \/ _param_def
  \/ _body
  \/ _mod_call
  \/ _params
  \/ _param

Next ==
  \/ call_add_module
  \/ call_add_source_file
  \/ call_add_data_file
  \/ Run

Spec == Init /\ [][Next]_vars

\* A running call is never left unfinished: the parser is one sequential
\* thread that runs until the call returns or raises.
FairSpec == Spec /\ WF_vars(Run)

(***************************************************************************)
(* What the properties speak of: the token kinds of the text being parsed, *)
(* the grammar of the specification read off the token sequence, and the   *)
(* ends of a call.                                                         *)
(***************************************************************************)
Kind(i) == _tokens[i].token_type

InParse(fn) == \E i \in DOMAIN stack : stack[i].fn = fn

\* The step on which an exception leaves the running add_* call.
Raises == stack # <<>> /\ stack' = <<>> /\ caller'.state = "raised"
\* The step on which the running add_* call returns.
Returns == stack # <<>> /\ stack' = <<>> /\ caller'.state = "returned"

Raised == stack = <<>> /\ caller.state = "raised"

\* The source-file (data-file) production is about to return its node.
SourceAccepted == At("_source_file", "117")
DataAccepted == At("_data_file", "139")

RECURSIVE SkipNewlines(_)
SkipNewlines(i) == IF Kind(i) = TOKENS_NEWLINE THEN SkipNewlines(i + 1) ELSE i

\* header = (FILE_ATTRIBUTE, NEWLINE+)* read from token i: the index of the
\* token after it, or 0 when an attribute is not followed by a newline.
RECURSIVE HeaderEnd(_)
HeaderEnd(i) ==
  IF Kind(i) # TOKENS_FILE_ATTRIBUTE THEN i
  ELSE IF Kind(i + 1) # TOKENS_NEWLINE THEN 0
       ELSE HeaderEnd(SkipNewlines(i + 1))

\* data_def = "DEFDAT", NAME, [PUBLIC], NEWLINE+, "ENDDAT", NEWLINE* read from
\* token i: the index of the token after it, or 0 when there is none at i.
DataDefEnd(i) ==
  IF Kind(i) # KEYWORDS_DEFDAT \/ Kind(i + 1) # TOKENS_NAME THEN 0
  ELSE LET j == IF Kind(i + 2) = KEYWORDS_PUBLIC THEN i + 3 ELSE i + 2
       IN  IF Kind(j) # TOKENS_NEWLINE THEN 0
           ELSE IF Kind(SkipNewlines(j)) # KEYWORDS_ENDDAT THEN 0
                ELSE SkipNewlines(SkipNewlines(j) + 1)

RECURSIVE DataDefs(_)
DataDefs(i) == IF DataDefEnd(i) = 0 THEN 0 ELSE 1 + DataDefs(DataDefEnd(i))

RECURSIVE DataDefsEnd(_)
DataDefsEnd(i) == IF DataDefEnd(i) = 0 THEN i ELSE DataDefsEnd(DataDefEnd(i))

\* The text holds no data definition after its header.
NoDataDef == HeaderEnd(1) # 0 /\ Kind(HeaderEnd(1)) # KEYWORDS_DEFDAT

\* The text holds, after its header, two or more well-formed data
\* definitions and no further DEFDAT.
ManyDataDefs ==
  /\ HeaderEnd(1) # 0
  /\ DataDefs(HeaderEnd(1)) >= 2
  /\ Kind(DataDefsEnd(HeaderEnd(1))) # KEYWORDS_DEFDAT

\* The places of the defining keywords of the text, in text order.
DefiningKeywords ==
  SelectSeq([i \in 1..Len(_tokens) |-> i],
            LAMBDA i : Kind(i) \in {KEYWORDS_DEF, KEYWORDS_DEFFCT})

\* The place after the definition whose defining keyword is the j-th.
DefinitionEnd(j) ==
  IF j < Len(DefiningKeywords) THEN DefiningKeywords[j + 1] - 1 ELSE Len(_tokens)

\* The parameters declared between tokens lo and hi: NAME ':' direction.
DeclaredParameters(lo, hi) ==
  LET colons == SelectSeq([i \in 1..Len(_tokens) |-> i],
                          LAMBDA i : lo <= i /\ i <= hi /\ Kind(i) = TOKENS_COLON)
  IN  [n \in 1..Len(colons) |->
         Parameter(_tokens[colons[n] - 1].value, Kind(colons[n] + 1))]

Last(s) == s[Len(s)]

NodeOf(op) ==
  CASE op = "add_module" -> "Module"
    [] op = "add_source_file" -> "SourceFile"
    [] op = "add_data_file" -> "DataFile"
    [] OTHER -> "None"

(***************************************************************************)
(* C1: the ast list changes only on the step an add_* call returns, and    *)
(* then by the append of exactly one node of that call's kind and name to  *)
(* the entries it held; every returning call appends.  So a call that      *)
(* raises leaves the list as it was, and earlier entries stay as they are. *)
(***************************************************************************)
C1_AtomicAppend ==
  [][ /\ _ast' # _ast => Returns
      /\ Returns => /\ Len(stack) = 1
                    /\ Len(_ast') = Len(_ast) + 1
                    /\ SubSeq(_ast', 1, Len(_ast)) = _ast
                    /\ Last(_ast').node = NodeOf(caller.op)
                    /\ Last(_ast').name \in ModuleNames
      /\ Raises => _ast' = _ast ]_vars

\* add_module has raised in its data file, after its source file parsed.
C1_Witness ==
  /\ Raised
  /\ caller.op = "add_module"
  /\ err.message = "No data definition found"

(***************************************************************************)
(* C2: in every accepted source file each GLOBAL token is immediately      *)
(* followed by DEF or DEFFCT.                                              *)
(***************************************************************************)
C2_GlobalOnlyBeforeDefinition ==
  SourceAccepted =>
    \A i \in 1..Len(_tokens) :
      Kind(i) = KEYWORDS_GLOBAL => Kind(i + 1) \in {KEYWORDS_DEF, KEYWORDS_DEFFCT}

(***************************************************************************)
(* C3: the node of a definition records its modifier: is_global is true    *)
(* exactly when GLOBAL precedes the defining keyword, is_public exactly    *)
(* when PUBLIC follows the name of the data definition.                    *)
(***************************************************************************)
C3_ModifierRecorded ==
  /\ SourceAccepted =>
       /\ Len(Top.statements) = Len(DefiningKeywords)
       /\ \A j \in 1..Len(Top.statements) :
            Top.statements[j].is_global
              = (DefiningKeywords[j] > 1
                 /\ Kind(DefiningKeywords[j] - 1) = KEYWORDS_GLOBAL)
  /\ DataAccepted =>
       \A j \in 1..Len(Top.statements) :
         Top.statements[j].is_public
           = (Kind(HeaderEnd(1) + 2) = KEYWORDS_PUBLIC)

\* The lines that call _is_current_token.
IsCurrentTokenLines ==
  { <<"_source_file", "106">>, <<"_data_file", "129">>, <<"_mod_def", "160">>,
    <<"_fnc_def", "186">>, <<"_params_def", "227">>, <<"_body", "257">>,
    <<"_params", "275">> }

(***************************************************************************)
(* C4: the _eat that _try_eat calls either finds the kind, and then the    *)
(* cursor is one token further and _try_eat returns True, or does not, and *)
(* then the cursor is where it was, nothing is raised to the caller and    *)
(* _try_eat returns False; _try_eat itself and the lines that call         *)
(* _is_current_token leave the cursor alone.                               *)
(***************************************************************************)
C4_TryEat ==
  [][ /\ (At("_eat", "69") /\ Len(stack) > 1 /\ stack[2].fn = "_try_eat") =>
           IF _current_token.token_type = Top.token_type
           THEN /\ _position' = _position + 1
                /\ _tokens' = _tokens
                /\ _current_token' = IF _position' < Len(_tokens)
                                     THEN _tokens[_position' + 1] ELSE None
                /\ stack' = Tail(stack)
                /\ stack[2].line = "79"
           ELSE /\ UNCHANGED <<cursor, err, caller>>
                /\ stack' = <<[stack[2] EXCEPT !.line = "81"]>> \o Tail(Tail(stack))
      /\ (stack # <<>> /\ Top.fn = "_try_eat") =>
           /\ UNCHANGED <<cursor, err>>
           /\ Top.line = "79" => ret'.flag = TRUE /\ stack' = Tail(stack)
           /\ Top.line = "81" => ret'.flag = FALSE /\ stack' = Tail(stack)
      /\ (stack # <<>> /\ <<Top.fn, Top.line>> \in IsCurrentTokenLines) =>
           UNCHANGED cursor ]_vars

\* _try_eat is about to report no match, some tokens into the text.
C4_Witness == At("_try_eat", "81") /\ _position > 0

C6_NoDefinitionDiagnostic ==
  [][ /\ SourceAccepted => Top.statements # <<>>
      /\ (At("_source_file", "112") /\ Top.statements = <<>>) =>
           /\ Raises
           /\ err' = ParsingError(_current_token.line_number,
                                  _current_token.column,
                                  "No module or function definition found")
      /\ (InParse("_source_file") /\ Raises /\ HeaderEnd(1) # 0
          /\ Kind(HeaderEnd(1))
               \notin {KEYWORDS_GLOBAL, KEYWORDS_DEF, KEYWORDS_DEFFCT}) =>
           err'.message = "No module or function definition found" ]_vars

\* The loop ran (it ate a GLOBAL) and still collected nothing.
C6_Witness ==
  /\ Raised
  /\ err.message = "No module or function definition found"
  /\ Kind(1) = KEYWORDS_GLOBAL

(***************************************************************************)
(* C7: the statements of an accepted source file are its definitions in    *)
(* the order of their defining keywords: the j-th statement is the         *)
(* procedure or function the j-th DEF or DEFFCT of the text opens.         *)
(***************************************************************************)
C7_StatementOrder ==
  SourceAccepted =>
    /\ Len(Top.statements) = Len(DefiningKeywords)
    /\ \A j \in 1..Len(Top.statements) :
         LET k == DefiningKeywords[j]
             statement == Top.statements[j]
         IN  /\ statement.node = "FunctionDefinition"
             /\ IF Kind(k) = KEYWORDS_DEF
                THEN /\ statement.returns = NoneNode
                     /\ statement.name = _tokens[k + 1].value
                ELSE /\ statement.returns = Type(_tokens[k + 1].value)
                     /\ statement.name = _tokens[k + 2].value

\* A procedure then a function, both parsed in one turn of the loop.
C7_Witness ==
  /\ SourceAccepted
  /\ Len(Top.statements) = 2
  /\ Top.statements[1].returns = NoneNode
  /\ Top.statements[2].returns # NoneNode

(***************************************************************************)
(* C8: no parameter is built without a direction and the parameters of a   *)
(* definition are the declared ones in text order; when the token after    *)
(* NAME ':' is neither IN nor OUT the parse raises, at that token, an      *)
(* error whose message names IN and OUT.                                   *)
(***************************************************************************)
C8_ParameterDirection ==
  [][ /\ \A i \in DOMAIN stack :
           stack[i].fn = "_params_def" =>
             \A n \in DOMAIN stack[i].parameters :
               stack[i].parameters[n].parameter_type \in {"IN", "OUT"}
      /\ SourceAccepted =>
           \A j \in 1..Len(Top.statements) :
             Top.statements[j].parameters
               = DeclaredParameters(DefiningKeywords[j], DefinitionEnd(j))
      /\ (_position > 0 /\ Kind(_position) = TOKENS_COLON
          /\ Kind(_position + 1) \notin {KEYWORDS_IN, KEYWORDS_OUT}) =>
           /\ ~Returns
           /\ Raises =>
                err' = ParsingError(_tokens[_position + 1].line_number,
                                    _tokens[_position + 1].column,
                                    "Expected \"IN\" or \"OUT\"") ]_vars

C8_Witness ==
  /\ Raised
  /\ err.message = "Expected \"IN\" or \"OUT\""
  /\ Kind(_position) = TOKENS_COLON
  /\ err.line_number = _tokens[_position + 1].line_number
  /\ err.column = _tokens[_position + 1].column

(***************************************************************************)
(* C9: every call that starts ends, in a return or a raise, and while one  *)
(* text is parsed the cursor never moves backwards.                        *)
(***************************************************************************)
C9_Terminates ==
  /\ (stack # <<>>) ~> (stack = <<>>)
  /\ [][ (stack # <<>> /\ ~At("add_module", "39")) =>
           /\ _tokens' = _tokens
           /\ _position' >= _position ]_vars

\* A source file that went through the header, the definition loop, a
\* parameter list and a body has been returned.
C9_Witness ==
  /\ stack = <<>>
  /\ caller = [op |-> "add_source_file", state |-> "returned"]
  /\ Len(Last(_ast).file_attributes) > 0
  /\ Len(Last(_ast).statements[1].body) > 0

\* The next step reads the current token.
Inspects ==
  /\ stack # <<>>
  /\ \/ Top.fn = "_eat"
     \/ <<Top.fn, Top.line>> \in IsCurrentTokenLines
     \/ <<Top.fn, Top.line>> \in { <<"_header", "148">>, <<"_source_file", "112">>,
                                   <<"_data_file", "132">>, <<"_param_def", "247">> }

(***************************************************************************)
(* C10: whenever the parser is about to inspect the current token, the     *)
(* cursor is inside the token sequence and the current token is the one    *)
(* under it; the current token is None only once the end-of-file token has *)
(* been eaten, which only the return of the file's node follows; no call   *)
(* ends in an access to a missing token.                                   *)
(***************************************************************************)
C10_CursorInvariant ==
  /\ err.type # "AttributeError"
  /\ Inspects =>
       /\ 0 <= _position /\ _position < Len(_tokens)
       /\ _current_token = _tokens[_position + 1]
       /\ _current_token # None
  /\ stack # <<>> =>
       IF _current_token = None
       THEN /\ _position = Len(_tokens)
            /\ Kind(Len(_tokens)) = TOKENS_END_OF_FILE
            /\ <<Top.fn, Top.line>> \in
                 { <<"_source_file", "117">>, <<"_data_file", "139">>,
                   <<"add_module", "39">>, <<"add_module", "42">>,
                   <<"add_source_file", "50">>, <<"add_data_file", "56">> }
       ELSE /\ _position < Len(_tokens)
            /\ _current_token = _tokens[_position + 1]

\* The end-of-file token has been eaten and the node is being returned.
C10_Witness == SourceAccepted /\ _current_token = None /\ _position = Len(_tokens)
====
